---- MODULE Spec2Model ----
(***************************************************************************)
(* A model of yvonneg/timeseries-importer: DataImporter (canonical grid,   *)
(* primary join, left_join and nearest-time imputation), FrostImporter     *)
(* (yearly batched fetch, closest stations) and NorKystImporter (nearest   *)
(* wet grid cell, time indices, per-file reads).                           *)
(*                                                                         *)
(* Times are whole minutes counted from the midnight before start_time.    *)
(* A pandas table is a sequence of rows; NaN is the absent value.          *)
(***************************************************************************)
EXTENDS Integers, Sequences, FiniteSets, TLC

VARIABLES
    di_pc,        \* DataImporter: position in __init__ / constructDataset
    start_time,   \* DataImporter.start_time (minutes)
    end_time,     \* DataImporter.end_time (minutes)
    data,         \* the local table `data` of constructDataset
    lj,           \* outcome of the last left_join call (its locals)
    fr_pc,        \* FrostImporter.data: "idle", "fetching" or "done"
    fr_start,     \* its start_time
    fr_end,       \* its end_time
    fr_batch,     \* its loop variable batch
    fr_requests,  \* the sub-intervals requested so far, with the outcome of each
    fr_timeseries,\* its local timeseries: the reference times of the rows fetched
    fr_result,    \* what it returned: "pending", "None" or "frame"
    fr_log,       \* the records written by __log
    rk_pc,        \* FrostImporter.location_ids: "idle" or "done"
    rk_in,        \* its inputs: the two server answers, n and the reference site
    rk_ids,       \* the station ids it returned
    rk_err,       \* the error it raised, or "none"
    nk_pc,        \* NorKystImporter: "new", "ready" or "called"
    nk_start,     \* its start_time
    nk_end,       \* its end_time
    nk_env,       \* the archive: the depth field h and the days that have a file
    nk_filenames, \* self.filenames: unset (None) or the list of daily files
    nk_cell,      \* self.y1, self.x1: unset (None) or the cached grid cell
    nk_call,      \* outcome of the last norkyst_data call (its locals)
    nk_log,       \* the files named on the "Processing" lines it printed
    cl_pc,        \* norkyst_filenames: "idle", "testing", "returned" or "raised"
    cl_in,        \* its inputs: start, end, the days with a file, the list built
    cl_filenames  \* its local list filenames

di_vars == <<di_pc, start_time, end_time, data, lj>>
rk_vars == <<rk_pc, rk_in, rk_ids, rk_err>>
nk_vars == <<nk_pc, nk_start, nk_end, nk_env, nk_filenames, nk_cell, nk_call, nk_log>>
cl_vars == <<cl_pc, cl_in, cl_filenames>>
fr_vars == <<fr_pc, fr_start, fr_end, fr_batch, fr_requests, fr_timeseries, fr_result, fr_log>>

(***************************************************************************)
(* Bounds of the model                                                     *)
(***************************************************************************)
MaxHour == 1      \* the dataset run covers hours 0 .. MaxHour
MaxObs == 2       \* primary observations in a response
MaxRaw == 2       \* rows of an auxiliary raw series
MaxVal == 2       \* observed values are 1 .. MaxVal
GridHours == 3    \* start and end of the grid-only runs lie in hours 0 .. GridHours
Years == 3        \* Frost fetches lie in calendar years 0 .. Years - 1
YearLen == 3      \* minutes in a calendar year of the Frost runs
MaxStations == 3  \* sources in the answer of the Frost sources service
GridRows == 2     \* rows of the NorKyst grid
GridCols == 2     \* columns of the NorKyst grid
MaxDepth == 2     \* values of the depth field h are 1 .. MaxDepth
RefRange == 3     \* a site lies up to RefRange cell widths west or east of the grid
Days == 3         \* NorKyst runs lie in days 0 .. Days - 1
Samples == 2      \* samples on the time axis of a daily file
MaxHalfMetres == 7 \* a depth argument is 0 .. MaxHalfMetres half metres

(***************************************************************************)
(* Program constants                                                       *)
(***************************************************************************)
Hour == 60        \* freq="H" / floor('H'), in minutes
NaN == 0          \* pandas' absent value
LandPenalty == 4  \* land_mask*1e12 m^2, with lengths in units of 500 km

Abs(x) == IF x < 0 THEN -x ELSE x
Range(s) == {s[i] : i \in 1..Len(s)}

RECURSIVE SeqsUpTo(_, _)
SeqsUpTo(S, n) ==
    IF n = 0 THEN {<<>>}
    ELSE LET shorter == SeqsUpTo(S, n - 1)
         IN shorter \cup {Append(s, x) : s \in {t \in shorter : Len(t) = n - 1}, x \in S}

(***************************************************************************)
(* DataImporter                                                            *)
(***************************************************************************)
\* "%Y-%m-%dT%H:%M": an argument is <<hour of the run, minute>>.
strptime(a) == a[1] * Hour + a[2]

\* Series.dt.floor('H')
floor_H(t) == (t \div Hour) * Hour

\* Mutant: a range that starts on the hour and runs until end is covered.
date_range_covering(s, e) ==
    IF s > e THEN <<>>
    ELSE [k \in 1..((e - floor_H(s) + Hour - 1) \div Hour + 1) |-> floor_H(s) + (k - 1) * Hour]

\* pd.date_range(start, end, freq="H"): start, start+1h, ... while <= end.
date_range(s, e) ==
    IF s > e THEN <<>>
    ELSE [k \in 1..((e - s) \div Hour + 1) |-> s + (k - 1) * Hour]

\* HavvarselFrostImporter.data: one row per observation, time floored to the hour.
HavvarselData(observations) ==
    [i \in 1..Len(observations) |->
        [time |-> floor_H(observations[i].time), cols |-> <<observations[i].value>>]]

Times(tbl) == {tbl[i].time : i \in 1..Len(tbl)}
RefTimes(timeseries) == {timeseries[i].referenceTime : i \in 1..Len(timeseries)}
TimeColumn(tbl) == [i \in 1..Len(tbl) |-> tbl[i].time]

\* pd.merge(left, right, how="left", on="time"): left order kept; a left row is
\* repeated once per right row of equal time, or kept once with n absent values.
RECURSIVE merge(_, _, _)
merge(left, right, n) ==
    IF left = <<>> THEN <<>>
    ELSE LET d == Head(left)
             m == SelectSeq(right, LAMBDA r : r.time = d.time)
             out == IF m = <<>>
                    THEN << [time |-> d.time, cols |-> d.cols \o [j \in 1..n |-> NaN]] >>
                    ELSE [j \in 1..Len(m) |-> [time |-> d.time, cols |-> d.cols \o m[j].cols]]
         IN out \o merge(Tail(left), right, n)

\* Index properties pandas checks before a nearest lookup.
is_unique(idx) == \A i, j \in 1..Len(idx) : idx[i] = idx[j] => i = j
is_monotonic_increasing(idx) == \A i \in 1..(Len(idx) - 1) : idx[i] <= idx[i + 1]
is_monotonic_decreasing(idx) == \A i \in 1..(Len(idx) - 1) : idx[i] >= idx[i + 1]

Max0(S) == IF S = {} THEN 0 ELSE CHOOSE x \in S : \A y \in S : y <= x
Min0(S) == IF S = {} THEN 0 ELSE CHOOSE x \in S : \A y \in S : x <= y

\* get_indexer(method="pad") / ("backfill"): the position before / after the
\* target in index order, 0 for pandas' -1 (none).
pad(idx, t) ==
    IF is_monotonic_increasing(idx)
    THEN Max0({i \in 1..Len(idx) : idx[i] <= t})
    ELSE Max0({i \in 1..Len(idx) : idx[i] >= t})
backfill(idx, t) ==
    IF is_monotonic_increasing(idx)
    THEN Min0({i \in 1..Len(idx) : idx[i] >= t})
    ELSE Min0({i \in 1..Len(idx) : idx[i] <= t})

\* Mutant: ties always go to the pad position.
NearestOpEarlier(increasing, ld, rd) == ld <= rd

\* The tie rule of Index._get_nearest_indexer: operator.lt on an increasing
\* index, operator.le otherwise; "left" is the pad position.
NearestOp(increasing, ld, rd) == IF increasing THEN ld < rd ELSE ld <= rd

\* timeseries.index.get_loc(t, method="nearest"): [err, loc]. numpy reads
\* position -1 as the last element when a distance is taken.
get_loc(idx, t) ==
    IF ~is_unique(idx) THEN [err |-> "InvalidIndexError", loc |-> 0]
    ELSE IF ~(is_monotonic_increasing(idx) \/ is_monotonic_decreasing(idx))
    THEN [err |-> "ValueError", loc |-> 0]
    ELSE IF idx = <<>> THEN [err |-> "KeyError", loc |-> 0]
    ELSE LET left == pad(idx, t)
             right == backfill(idx, t)
             at(i) == IF i = 0 THEN idx[Len(idx)] ELSE idx[i]
             ld == Abs(at(left) - t)
             rd == Abs(at(right) - t)
             loc == IF NearestOp(is_monotonic_increasing(idx), ld, rd) \/ right = 0
                    THEN left ELSE right
         IN IF loc = 0 THEN [err |-> "KeyError", loc |-> 0]
            ELSE [err |-> "none", loc |-> loc]

\* data[~data["time"].isin(timeseries["referenceTime"])]["time"]
missing_times(tbl, timeseries) ==
    SelectSeq(TimeColumn(tbl), LAMBDA t : t \notin RefTimes(timeseries))

\* DataImporter.imput_missing_data: [err, ts, fill].
imput_missing_data(tbl, timeseries, ts) ==
    LET missing == missing_times(tbl, timeseries)
        idx == [i \in 1..Len(timeseries) |-> timeseries[i].referenceTime]
        locs == [k \in 1..Len(missing) |-> get_loc(idx, missing[k])]
        bad == {k \in 1..Len(missing) : locs[k].err # "none"}
        fill == [k \in 1..Len(missing) |->
                    [referenceTime |-> missing[k],
                     value |-> timeseries[locs[k].loc].value]]
    IN IF bad # {}
       THEN [err |-> locs[Min0(bad)].err, ts |-> ts, fill |-> <<>>]
       ELSE IF missing = <<>>
       THEN [err |-> "KeyError", ts |-> ts, fill |-> <<>>]   \* fill.set_index on an empty frame
       ELSE [err |-> "none", ts |-> ts \o fill, fill |-> fill]

\* The row-count test of left_join that decides whether to impute.
NeedsImputation(tbl, ts) == Len(tbl) > Len(ts)

\* ts.rename(columns={"referenceTime":"time"}) and the selection of cols_param
rename(ts) ==
    [i \in 1..Len(ts) |-> [time |-> ts[i].referenceTime, cols |-> <<ts[i].value>>]]

\* DataImporter.left_join: [imputed, err, fill, data].
left_join(timeseries, tbl) ==
    LET ts == SelectSeq(timeseries, LAMBDA r : r.referenceTime \in Times(tbl))
        imputed == NeedsImputation(tbl, ts)
        res == IF imputed THEN imput_missing_data(tbl, timeseries, ts)
               ELSE [err |-> "none", ts |-> ts, fill |-> <<>>]
    IN [imputed |-> imputed, err |-> res.err, fill |-> res.fill,
        data |-> IF res.err = "none" THEN merge(tbl, rename(res.ts), 1) ELSE tbl]

NoJoin == [called |-> FALSE]

\* Arguments of a run: <<hour, minute>> at minute precision.
MinuteSamples == {0, 1, 30, 59}
GridArgs == {<<h, m>> : h \in 0..GridHours, m \in MinuteSamples}
RunStart == {<<0, 0>>}
RunEnd == {<<MaxHour, 59>>}

\* Observation times of the primary source: on the hour or one minute late.
ObsTimes == {h * Hour + d : h \in 0..MaxHour, d \in {0, 1}}
Observations ==
    {o \in SeqsUpTo([time : ObsTimes, value : 1..MaxVal], MaxObs) :
        /\ o # <<>>
        /\ \A i \in 1..(Len(o) - 1) : o[i].time <= o[i + 1].time}

\* The complete response: one observation on each hour of the run.
CompleteObservations ==
    {[i \in 1..(MaxHour + 1) |-> [time |-> (i - 1) * Hour, value |-> 1]]}

\* Timestamps of an auxiliary raw series: on the hour or on the half hour.
RawTimes == {h * Hour + d : h \in 0..MaxHour, d \in {0, 30}}
RawSeries == SeqsUpTo([referenceTime : RawTimes, value : 1..MaxVal], MaxRaw)

\* A gridded series as handed to the closing merges: the first k hourly samples.
GriddedSeries ==
    {[i \in 1..k |-> [time |-> (i - 1) * Hour, cols |-> <<1>>]] : k \in {MaxHour, MaxHour + 1}}

DI_Init ==
    /\ di_pc = "new"
    /\ start_time = 0
    /\ end_time = 0
    /\ data = <<>>
    /\ lj = NoJoin

\* DataImporter.__init__ (non-command-line branch)
DataImporter_init(Starts, Ends) ==
    /\ di_pc = "new"
    /\ \E s \in Starts, e \in Ends :
        /\ start_time' = strptime(s)
        /\ end_time' = strptime(e)
    /\ di_pc' = "ready"
    /\ UNCHANGED <<data, lj, fr_vars, rk_vars, nk_vars, cl_vars>>

\* constructDataset, lines 64-66: the canonical grid
BuildGrid ==
    /\ di_pc = "ready"
    /\ data' = [k \in 1..Len(date_range(start_time, end_time)) |->
                   [time |-> date_range(start_time, end_time)[k], cols |-> <<>>]]
    /\ di_pc' = "grid"
    /\ UNCHANGED <<start_time, end_time, lj, fr_vars, rk_vars, nk_vars, cl_vars>>

\* constructDataset, lines 70-75: fetch the primary series and join it
PrimaryJoin(Responses) ==
    /\ di_pc = "grid"
    /\ \E obs \in Responses : data' = merge(data, HavvarselData(obs), 1)
    /\ di_pc' = "primary"
    /\ UNCHANGED <<start_time, end_time, lj, fr_vars, rk_vars, nk_vars, cl_vars>>

\* constructDataset, lines 104-107 (the Frost block): one left_join call
LeftJoin ==
    /\ di_pc = "primary"
    /\ \E timeseries \in RawSeries :
        LET r == left_join(timeseries, data)
        IN /\ lj' = [called |-> TRUE, base |-> data, timeseries |-> timeseries,
                     imputed |-> r.imputed, err |-> r.err, fill |-> r.fill]
           /\ data' = r.data
           /\ di_pc' = IF r.err = "none" THEN "frost" ELSE "failed"
    /\ UNCHANGED <<start_time, end_time, fr_vars, rk_vars, nk_vars, cl_vars>>

\* A call of imput_missing_data itself on the table and a raw series, with ts
\* the raw series restricted to the table's times (as left_join passes it)
ImputMissingData ==
    /\ di_pc = "primary"
    /\ \E timeseries \in RawSeries :
        LET ts == SelectSeq(timeseries, LAMBDA r : r.referenceTime \in Times(data))
            r == imput_missing_data(data, timeseries, ts)
        IN lj' = [called |-> TRUE, base |-> data, timeseries |-> timeseries,
                  imputed |-> TRUE, err |-> r.err, fill |-> r.fill,
                  ts |-> ts, out |-> r.ts]
    /\ di_pc' = "imputed"
    /\ UNCHANGED <<start_time, end_time, data, fr_vars, rk_vars, nk_vars, cl_vars>>

\* constructDataset, lines 113-122: merge of the NorKyst series
NorkystJoin ==
    /\ di_pc \in {"primary", "frost"}
    /\ \E timeseries \in GriddedSeries : data' = merge(data, timeseries, 1)
    /\ di_pc' = "norkyst"
    /\ UNCHANGED <<start_time, end_time, lj, fr_vars, rk_vars, nk_vars, cl_vars>>

\* constructDataset, lines 129-153: merge of the post-processed forecast, save
PPJoin ==
    /\ di_pc = "norkyst"
    /\ \E timeseries \in GriddedSeries : data' = merge(data, timeseries, 1)
    /\ di_pc' = "saved"
    /\ UNCHANGED <<start_time, end_time, lj, fr_vars, rk_vars, nk_vars, cl_vars>>


(***************************************************************************)
(* FrostImporter.data                                                      *)
(***************************************************************************)
\* datetime.year, and strptime of "<year>-01-01T00:00" / "<year>-12-31T23:59"
year(t) == t \div YearLen
jan_1_0000(y) == y * YearLen
dec_31_2359(y) == y * YearLen + YearLen - 1

\* Mutant: every batch after the first starts at start_time again.
inter_start_same(batch, start) == start

\* The start of sub-interval `batch` (lines 87-90)
inter_start(batch, start) ==
    IF batch = 0 THEN start ELSE jan_1_0000(year(start) + batch)

\* The end of sub-interval `batch` (lines 92-95)
inter_end(batch, years, start, end) ==
    IF batch = years THEN end ELSE dec_31_2359(year(start) + batch)

\* The server's answer to a successful request: a row for each minute of the
\* interval, in time order.
response(s, e) == IF s > e THEN <<>> ELSE [k \in 1..(e - s + 1) |-> s + k - 1]

\* Mutant: a failed sub-interval is skipped and the loop goes on.
on_HTTPError_skip(batch, years) ==
    [pc |-> IF batch = years THEN "done" ELSE "fetching",
     result |-> IF batch = years THEN "frame" ELSE "pending"]

\* The except branch (lines 114-116): log and return None.
on_HTTPError(batch, years) == [pc |-> "done", result |-> "None"]

FrostTimes == 0..(Years * YearLen - 1)

FR_Init ==
    /\ fr_pc = "idle"
    /\ fr_start = 0
    /\ fr_end = 0
    /\ fr_batch = 0
    /\ fr_requests = <<>>
    /\ fr_timeseries = <<>>
    /\ fr_result = "pending"
    /\ fr_log = <<>>

\* data(): lines 73-84, up to the loop; no batch at all when years < 0
FrostData ==
    /\ fr_pc = "idle"
    /\ \E s \in FrostTimes, e \in FrostTimes :
        /\ fr_start' = s
        /\ fr_end' = e
        /\ fr_pc' = IF year(e) - year(s) < 0 THEN "done" ELSE "fetching"
        /\ fr_result' = IF year(e) - year(s) < 0 THEN "frame" ELSE "pending"
    /\ fr_batch' = 0
    /\ UNCHANGED <<fr_requests, fr_timeseries, fr_log, di_vars, rk_vars, nk_vars, cl_vars>>

\* One pass of the loop with a 2xx answer (lines 86-118)
FrostFetchOk ==
    /\ fr_pc = "fetching"
    /\ LET years == year(fr_end) - year(fr_start)
           s == inter_start(fr_batch, fr_start)
           e == inter_end(fr_batch, years, fr_start, fr_end)
       IN /\ fr_requests' = Append(fr_requests, [start |-> s, end |-> e, ok |-> TRUE])
          /\ fr_log' = Append(fr_log, "Trying")
          /\ fr_timeseries' = fr_timeseries \o response(s, e)
          /\ fr_batch' = fr_batch + 1
          /\ fr_pc' = IF fr_batch = years THEN "done" ELSE "fetching"
          /\ fr_result' = IF fr_batch = years THEN "frame" ELSE "pending"
    /\ UNCHANGED <<fr_start, fr_end, di_vars, rk_vars, nk_vars, cl_vars>>

\* One pass of the loop with a non-2xx answer: raise_for_status raises
FrostFetchHTTPError ==
    /\ fr_pc = "fetching"
    /\ LET years == year(fr_end) - year(fr_start)
           s == inter_start(fr_batch, fr_start)
           e == inter_end(fr_batch, years, fr_start, fr_end)
           after == on_HTTPError(fr_batch, years)
       IN /\ fr_requests' = Append(fr_requests, [start |-> s, end |-> e, ok |-> FALSE])
          /\ fr_log' = fr_log \o <<"Trying", "HTTPError">>
          /\ fr_batch' = fr_batch + 1
          /\ fr_pc' = after.pc
          /\ fr_result' = after.result
    /\ UNCHANGED <<fr_start, fr_end, fr_timeseries, di_vars, rk_vars, nk_vars, cl_vars>>

(***************************************************************************)
(* FrostImporter.location_ids                                              *)
(***************************************************************************)
\* Coordinates are whole degrees on which the haversine terms are rational:
\* S4(d) = 4 sin^2(d/2) and Cos2(lat) = 2 cos(lat).
S4(d) == CASE d = 0 -> 0 [] d = 60 -> 1 [] d = 90 -> 2 [] d = 120 -> 3 [] d = 180 -> 4
Cos2(lat) == CASE lat = 0 -> 2 [] lat = 60 -> 1 [] lat = -60 -> 1

\* haversine(latlon_ref, latlon): 16 sin^2(c/2) for the central angle c, which
\* orders station pairs as the great-circle distance 2 R asin(sqrt(.)) does.
haversine(p, q) ==
    4 * S4(Abs(p[1] - q[1])) + Cos2(p[1]) * Cos2(q[1]) * S4(Abs(p[2] - q[2]))

\* An element of the sources answer without a "geometry" key
NoGeometry == <<>>

\* Lines 145-152: two rows per source with a geometry, its longitude then its
\* latitude (GeoJSON order).
RECURSIVE geometry_rows(_)
geometry_rows(elements) ==
    IF elements = <<>> THEN <<>>
    ELSE LET element == Head(elements)
         IN (IF element.geometry = NoGeometry THEN <<>>
             ELSE << [coordinates |-> element.geometry[1], station_id |-> element.id],
                     [coordinates |-> element.geometry[2], station_id |-> element.id] >>)
            \o geometry_rows(Tail(elements))

\* element["sourceId"].split(":")[0]
split_colon(sourceId) == sourceId[1]

\* Lines 185-190: one row per pair of rows of df
df_dist(df, latlon_ref) ==
    [i \in 1..(Len(df) \div 2) |->
        LET latlon == <<df[2 * i].coordinates, df[2 * i - 1].coordinates>>
        IN [station_id |-> df[2 * i - 1].station_id,
            dist |-> haversine(latlon_ref, latlon)]]

\* A stable sort on dist: a row goes behind the rows that are not farther.
RECURSIVE sort_by_dist(_)
sort_by_dist(rows) ==
    IF rows = <<>> THEN <<>>
    ELSE LET sorted == sort_by_dist(SubSeq(rows, 1, Len(rows) - 1))
             row == rows[Len(rows)]
             k == Cardinality({i \in 1..Len(sorted) : sorted[i].dist <= row.dist})
         IN SubSeq(sorted, 1, k) \o <<row>> \o SubSeq(sorted, k + 1, Len(sorted))

\* Mutant: the first n rows as they come.
nsmallest_unsorted(n, rows) == SubSeq(rows, 1, IF n < Len(rows) THEN n ELSE Len(rows))

\* DataFrame.nsmallest(n, "dist"), keep="first"
nsmallest(n, rows) ==
    SubSeq(sort_by_dist(rows), 1, IF n < Len(rows) THEN n ELSE Len(rows))

\* location_ids, lines 142-198: [err, ids]
location_ids(sources, availability, n, latlon_ref) ==
    LET df == geometry_rows(sources)
        ids == {split_colon(availability[i]) : i \in 1..Len(availability)}
        kept == SelectSeq(df, LAMBDA r : r.station_id \in ids)
        dists == df_dist(kept, latlon_ref)
        df_ids == nsmallest(n, dists)
    IN IF df = <<>> \/ availability = <<>> \/ dists = <<>>
       THEN [err |-> "KeyError", ids |-> <<>>]
       ELSE [err |-> "none", ids |-> [i \in 1..Len(df_ids) |-> df_ids[i].station_id]]

\* Answers of the sources service: source i has id i and a point or no geometry.
Points == {<<lon, lat>> : lon \in {0, 60}, lat \in {0, 60}}
Sources ==
    UNION {[1..k -> {NoGeometry} \cup Points] : k \in 1..MaxStations}
SourceList(g) == [i \in 1..Len(g) |-> [id |-> i, geometry |-> g[i]]]
\* Answers of the availability service: the source ids of a subset, sensor 0.
RECURSIVE SeqOfSet(_)
SeqOfSet(S) ==
    IF S = {} THEN <<>>
    ELSE LET x == CHOOSE x \in S : \A y \in S : x <= y
         IN <<x>> \o SeqOfSet(S \ {x})
Availability(ids) == [i \in 1..Len(SeqOfSet(ids)) |-> <<SeqOfSet(ids)[i], 0>>]
ReferenceSites == {<<0, 0>>, <<60, 0>>}   \* (lat, lon)

RK_Init ==
    /\ rk_pc = "idle"
    /\ rk_in = <<>>
    /\ rk_ids = <<>>
    /\ rk_err = "none"

LocationIds ==
    /\ rk_pc = "idle"
    /\ \E g \in Sources, a \in SUBSET (1..MaxStations), n \in 1..MaxStations,
          ref \in ReferenceSites :
        LET r == location_ids(SourceList(g), Availability(a), n, ref)
        IN /\ rk_in' = [sources |-> SourceList(g), availability |-> Availability(a),
                        n |-> n, latlon_ref |-> ref]
           /\ rk_ids' = r.ids
           /\ rk_err' = r.err
    /\ rk_pc' = "done"
    /\ UNCHANGED <<di_vars, fr_vars, nk_vars, cl_vars>>

(***************************************************************************)
(* NorKystImporter                                                         *)
(***************************************************************************)
\* The archive: the file of day d holds Samples times, two minutes apart,
\* from midnight of that day.
Day == Samples * 2
file_times(d) == [k \in 1..Samples |-> d * Day + (k - 1) * 2]

\* daterange (lines 71-75): the dates start + i days for i < (end - start).days + 1
daterange(start_date, end_date) ==
    LET n == (end_date - start_date) \div Day + 1
    IN IF n <= 0 THEN <<>> ELSE [i \in 1..n |-> (start_date + (i - 1) * Day) \div Day]

\* The cleaning loop (lines 90-96): leading files that cannot be opened are
\* popped; popping from the empty list raises IndexError.
RECURSIVE clean(_, _)
clean(filenames, avail) ==
    IF filenames = <<>> THEN [err |-> "IndexError", list |-> <<>>]
    ELSE IF Head(filenames) \in avail THEN [err |-> "none", list |-> filenames]
    ELSE clean(Tail(filenames), avail)

\* norkyst_filenames
norkyst_filenames(start, end, avail) == clean(daterange(start, end), avail)

\* The grid: cell k of the flattened (row-major) arrays lies in row y1, column
\* x1 (counted from 0) at the projected point (x1, y1) in units of a cell width.
Cells == 1..(GridRows * GridCols)
cell_y(k) == (k - 1) \div GridCols
cell_x(k) == (k - 1) % GridCols

\* Lines 139-141: the land mask from the depth field
land_value(h) == CHOOSE v \in Range(h) : \A w \in Range(h) : v <= w
land_mask(h) == [k \in Cells |-> IF h[k] # land_value(h) THEN 0 ELSE 1]

\* Line 142: squared distance to the site plus the penalty of land cells
distances(h, xp1, yp1) ==
    [k \in Cells |-> (cell_x(k) - xp1) * (cell_x(k) - xp1)
                     + (cell_y(k) - yp1) * (cell_y(k) - yp1)
                     + land_mask(h)[k] * LandPenalty]

\* distances.argmin(): the first cell of least value in flattened order
argmin(d) == CHOOSE k \in Cells :
    /\ \A j \in Cells : d[k] <= d[j]
    /\ \A j \in Cells : d[j] = d[k] => k <= j

\* netCDF4.date2index(t, times, select="before"), 0-based: [err, index]
date2index_before(times, t) ==
    IF t < times[1] THEN [err |-> "ValueError", index |-> 0]
    ELSE [err |-> "none", index |-> Max0({i \in 1..Len(times) : times[i] <= t}) - 1]

\* netCDF4.date2index(t, times, select="after"), 0-based: [err, index]
date2index_after(times, t) ==
    IF t > times[Len(times)] THEN [err |-> "ValueError", index |-> 0]
    ELSE [err |-> "none", index |-> Min0({i \in 1..Len(times) : times[i] >= t}) - 1]

\* Lines 158-162: the first index read of the first file
resolve_t1(times, start) ==
    LET r == date2index_before(times, start)
    IN IF r.err = "none" THEN (IF r.index > 0 THEN r.index ELSE 0) ELSE 0

\* Lines 179-182: the index at which the read of the last file stops
resolve_t2(times, end) ==
    LET r == date2index_after(times, end)
    IN IF r.err = "none" THEN r.index ELSE Len(times)

\* data1file: the rows nc.variables[...][t1:t2] of a file (Python slice)
data1file(d, t1, t2) == SubSeq(file_times(d), t1 + 1, t2)

\* The reads of a call in order: the first file from t1, each middle file in
\* full, the last file up to t2.
reads_of(filenames, start, end) ==
    LET n == Len(filenames)
        first == [kind |-> "first", file |-> filenames[1],
                  rows |-> data1file(filenames[1],
                                     resolve_t1(file_times(filenames[1]), start), Samples)]
        middle == [i \in 1..(IF n > 2 THEN n - 2 ELSE 0) |->
                      [kind |-> "middle", file |-> filenames[i + 1],
                       rows |-> data1file(filenames[i + 1], 0, Samples)]]
        last == [kind |-> "last", file |-> filenames[n],
                 rows |-> data1file(filenames[n], 0,
                                    resolve_t2(file_times(filenames[n]), end))]
    IN <<first>> \o middle \o <<last>>

\* Mutant: a failed read inside try/except is raised to the caller.
read_in_try_raises(ok, rows) ==
    IF ok THEN [err |-> "none", rows |-> rows] ELSE [err |-> "OSError", rows |-> <<>>]

\* A read inside try/except (lines 169-173, 176-187): a failure is passed over.
read_in_try(ok, rows) ==
    IF ok THEN [err |-> "none", rows |-> rows] ELSE [err |-> "none", rows |-> <<>>]

\* The read of the first file (lines 117, 165) stands outside any try.
read_first(ok, rows) ==
    IF ok THEN [err |-> "none", rows |-> rows] ELSE [err |-> "OSError", rows |-> <<>>]

\* Lines 164-187: the reads folded into one series; oks[i] tells whether read i
\* succeeds. [err, timeseries]
RECURSIVE concat_reads(_, _, _)
concat_reads(reads, oks, i) ==
    IF i > Len(reads) THEN [err |-> "none", timeseries |-> <<>>]
    ELSE LET r == IF reads[i].kind = "first" THEN read_first(oks[i], reads[i].rows)
                  ELSE read_in_try(oks[i], reads[i].rows)
             rest == concat_reads(reads, oks, i + 1)
         IN IF r.err # "none" THEN [err |-> r.err, timeseries |-> <<>>]
            ELSE IF rest.err # "none" THEN rest
            ELSE [err |-> "none", timeseries |-> r.rows \o rest.timeseries]

\* The depth axis of a file (its first levels), in metres.
all_depths == <<0, 3, 10>>

\* int(d) for a depth d >= 0 given in half metres: the fraction is cut off.
int(d) == d \div 2

\* Lines 147-154: np.where(all_depths == int(d))[0][0] for a scalar depth or
\* for each element of a list; [0] of an empty match raises. [err, index]
depth_index(depth) ==
    LET where(d) == {k \in 1..Len(all_depths) : all_depths[k] = int(d)}
    IN IF \E j \in 1..Len(depth.d) : where(depth.d[j]) = {}
       THEN [err |-> "IndexError", index |-> <<>>]
       ELSE [err |-> "none",
             index |-> [j \in 1..Len(depth.d) |-> Min0(where(depth.d[j])) - 1]]

\* A depth argument: a scalar or a list, in half metres.
Scalar(d) == [list |-> FALSE, d |-> <<d>>]
List(ds) == [list |-> TRUE, d |-> ds]
Surface == {Scalar(0)}
DepthArgs ==
    {Scalar(d) : d \in 0..MaxHalfMetres}
        \cup {List(<<d, e>>) : d \in 0..MaxHalfMetres, e \in 0..MaxHalfMetres}

\* data1file prints "Processing <filename>" once the file is open (lines
\* 196-198); nothing else names a file, and a failed read prints nothing. The
\* lines printed by the reads up to the first one that raises:
RECURSIVE processing_lines(_, _, _)
processing_lines(reads, oks, i) ==
    IF i > Len(reads) THEN <<>>
    ELSE IF oks[i] THEN <<reads[i].file>> \o processing_lines(reads, oks, i + 1)
    ELSE IF reads[i].kind = "first" THEN <<>>
    ELSE processing_lines(reads, oks, i + 1)

Unset == [set |-> FALSE]
NoCall == [called |-> FALSE]

Fields == [Cells -> 1..MaxDepth]
Sites == {<<x, y>> : x \in (0 - RefRange)..(GridCols - 1 + RefRange), y \in 0..(GridRows - 1)}
NkTimes == 0..(Days * Day - 1)
AllDays == 0..(Days - 1)
\* One field with land in the first cell only, one site, every file present.
CoastField == [k \in Cells |-> IF k = 1 THEN 1 ELSE MaxDepth]
HomeSite == {<<0, 0>>}

NK_Init ==
    /\ nk_pc = "new"
    /\ nk_start = 0
    /\ nk_end = 0
    /\ nk_env = [h |-> CoastField, avail |-> AllDays]
    /\ nk_filenames = Unset
    /\ nk_cell = Unset
    /\ nk_call = NoCall
    /\ nk_log = <<>>

\* NorKystImporter.__init__ (lines 60-67), against an archive
NorKystImporter_init(Starts, Ends, Hs, Avails) ==
    /\ nk_pc = "new"
    /\ \E s \in Starts, e \in Ends, h \in Hs, a \in Avails :
        /\ nk_start' = s
        /\ nk_end' = e
        /\ nk_env' = [h |-> h, avail |-> a]
    /\ nk_filenames' = Unset
    /\ nk_cell' = Unset
    /\ nk_pc' = "ready"
    /\ UNCHANGED <<nk_call, nk_log, di_vars, fr_vars, rk_vars, cl_vars>>

\* norkyst_data (lines 101-193) for a site; `failing` are the reads of the call
\* that fail although the file was there when the list was built.
norkyst_call(site, failing, depth) ==
        LET names == IF nk_filenames.set THEN [err |-> "none", list |-> nk_filenames.list]
                     ELSE norkyst_filenames(nk_start, nk_end, nk_env.avail)
        IN IF names.err # "none"
           THEN /\ nk_call' = [called |-> TRUE, err |-> names.err, site |-> site,
                                  dates |-> daterange(nk_start, nk_end)]
                /\ UNCHANGED <<nk_filenames, nk_cell, nk_log>>
           ELSE LET reads == reads_of(names.list, nk_start, nk_end)
                    oks == [i \in 1..Len(reads) |->
                               reads[i].file \in nk_env.avail /\ i \notin failing]
                    k == argmin(distances(nk_env.h, site[1], site[2]))
                    cell == IF nk_cell.set THEN nk_cell
                            ELSE [set |-> TRUE, y1 |-> cell_y(k), x1 |-> cell_x(k)]
                    level == depth_index(depth)
                    found == ~oks[1] \/ level.err = "none"
                    out == IF found THEN concat_reads(reads, oks, 1)
                           ELSE [err |-> level.err, timeseries |-> <<>>]
                IN /\ nk_filenames' = [set |-> TRUE, list |-> names.list]
                   /\ nk_cell' = IF oks[1] THEN cell ELSE nk_cell
                   /\ nk_log' = IF found THEN nk_log \o processing_lines(reads, oks, 1)
                                ELSE nk_log
                   /\ nk_call' = [called |-> TRUE, err |-> out.err, site |-> site,
                                  dates |-> daterange(nk_start, nk_end),
                                  depth |-> depth, depth_index |-> level.index,
                                  reads |-> reads, oks |-> oks, y1 |-> cell.y1,
                                  x1 |-> cell.x1, timeseries |-> out.timeseries]

\* The first call of norkyst_data on an instance
norkyst_data(SiteSet, FailSets, Depths) ==
    /\ nk_pc = "ready"
    /\ \E site \in SiteSet, failing \in FailSets, depth \in Depths :
        norkyst_call(site, failing, depth)
    /\ nk_pc' = "called"
    /\ UNCHANGED <<nk_start, nk_end, nk_env, di_vars, fr_vars, rk_vars, cl_vars>>

\* A second call of norkyst_data on the same instance
norkyst_data_again(SiteSet, FailSets, Depths) ==
    /\ nk_pc = "called"
    /\ \E site \in SiteSet, failing \in FailSets, depth \in Depths :
        norkyst_call(site, failing, depth)
    /\ nk_pc' = "recalled"
    /\ UNCHANGED <<nk_start, nk_end, nk_env, di_vars, fr_vars, rk_vars, cl_vars>>

\* Mutant: the failed first file stays in the list.
pop0_keep(filenames) == filenames

\* filenames.pop(0) on a list that has a first element
pop0(filenames) == Tail(filenames)

CL_Init ==
    /\ cl_pc = "idle"
    /\ cl_in = <<>>
    /\ cl_filenames = <<>>

\* norkyst_filenames, lines 81-90: the list of daily files is built
BuildFilenames ==
    /\ cl_pc = "idle"
    /\ \E s \in NkTimes, e \in NkTimes, a \in SUBSET AllDays :
        /\ cl_in' = [start |-> s, end |-> e, avail |-> a, dates |-> daterange(s, e)]
        /\ cl_filenames' = daterange(s, e)
    /\ cl_pc' = "testing"
    /\ UNCHANGED <<di_vars, fr_vars, rk_vars, nk_vars>>

\* One pass of the cleaning loop (lines 91-96): the first file opens and the
\* loop ends, or the bare except pops it; filenames[0] of the empty list raises
\* into the except, whose pop(0) raises IndexError out of the method.
TestFirstFile ==
    /\ cl_pc = "testing"
    /\ IF cl_filenames # <<>> /\ Head(cl_filenames) \in cl_in.avail
       THEN cl_pc' = "returned" /\ UNCHANGED cl_filenames
       ELSE IF cl_filenames = <<>>
       THEN cl_pc' = "raised" /\ UNCHANGED cl_filenames
       ELSE cl_pc' = "testing" /\ cl_filenames' = pop0(cl_filenames)
    /\ UNCHANGED <<cl_in, di_vars, fr_vars, rk_vars, nk_vars>>

vars == <<di_vars, fr_vars, rk_vars, nk_vars, cl_vars>>

\* A dataset run over hours 0 .. MaxHour.
Init == DI_Init /\ FR_Init /\ RK_Init /\ NK_Init /\ CL_Init
Next ==
    \/ DataImporter_init(RunStart, RunEnd)
    \/ BuildGrid
    \/ PrimaryJoin(Observations)
    \/ LeftJoin
    \/ NorkystJoin
    \/ PPJoin
Spec == Init /\ [][Next]_vars

\* The same run when the primary source answers with its complete series, so
\* that every left_join starts from the canonical grid.
ImputeNext ==
    \/ DataImporter_init(RunStart, RunEnd)
    \/ BuildGrid
    \/ PrimaryJoin(CompleteObservations)
    \/ LeftJoin
    \/ NorkystJoin
    \/ PPJoin
SpecImpute == Init /\ [][ImputeNext]_vars

\* imput_missing_data called on the table after the primary join.
FillNext ==
    \/ DataImporter_init(RunStart, RunEnd)
    \/ BuildGrid
    \/ PrimaryJoin(Observations)
    \/ ImputMissingData
SpecFill == Init /\ [][FillNext]_vars

\* Grid construction for every start and end of GridArgs.
GridNext ==
    \/ DataImporter_init(GridArgs, GridArgs)
    \/ BuildGrid
SpecGrid == Init /\ [][GridNext]_vars

\* Frost fetches for every start and end of FrostTimes.
FrostNext ==
    \/ FrostData
    \/ FrostFetchOk
    \/ FrostFetchHTTPError
SpecFrost == Init /\ [][FrostNext]_vars

\* Station ranking for every answer of the two services.
RankNext == LocationIds
SpecRank == Init /\ [][RankNext]_vars

\* Grid-cell location for every depth field and site, every read succeeding.
LocateNext ==
    \/ NorKystImporter_init({0}, {Days * Day - 1}, Fields, {AllDays})
    \/ norkyst_data(Sites, {{}}, Surface)
SpecLocate == Init /\ [][LocateNext]_vars

\* Extraction at one site for every start, end and set of files in the
\* archive, with at most one read failing on a file that is there.
ExtractNext ==
    \/ NorKystImporter_init(NkTimes, NkTimes, {CoastField}, SUBSET AllDays)
    \/ norkyst_data(HomeSite, {{}} \cup {{i} : i \in 1..Days}, Surface)
SpecExtract == Init /\ [][ExtractNext]_vars

\* The cleaning loop of norkyst_filenames, pass by pass, for every start, end
\* and set of days with a file; the loop is sequential code that keeps running.
CleanNext ==
    \/ BuildFilenames
    \/ TestFirstFile
SpecClean == Init /\ [][CleanNext]_vars /\ WF_vars(TestFirstFile)

\* Two calls on one instance, each for any site, the read of the middle
\* file failing or not.
RecallNext ==
    \/ NorKystImporter_init({0}, {Days * Day - 1}, {CoastField}, {AllDays})
    \/ norkyst_data(Sites, {{}, {2}}, Surface)
    \/ norkyst_data_again(Sites, {{}, {2}}, Surface)
SpecRecall == Init /\ [][RecallNext]_vars

\* Extraction over the whole run at one site for every depth argument.
DepthNext ==
    \/ NorKystImporter_init({0, 1}, {Days * Day - 1}, {CoastField}, {AllDays})
    \/ norkyst_data(HomeSite, {{}}, DepthArgs)
SpecDepth == Init /\ [][DepthNext]_vars

(***************************************************************************)
(* Properties of DataImporter                                              *)
(***************************************************************************)
AfterPrimary == di_pc \in {"primary", "frost", "norkyst", "saved"}
Joined == lj.called /\ di_pc \in {"frost", "failed"}
IsGrid(tbl) == is_unique(TimeColumn(tbl))
Dist(r, t) == Abs(r.referenceTime - t)
FillRows(t) == {k \in 1..Len(lj.fill) : lj.fill[k].referenceTime = t}
MissingFromRaw == Times(lj.base) \ RefTimes(lj.timeseries)
Nearest(r, t) == \A q \in Range(lj.timeseries) : Dist(r, t) <= Dist(q, t)
Imputed == Joined /\ lj.imputed /\ lj.err = "none" /\ IsGrid(lj.base)

\* C1: after the primary join and after every left_join the table has the rows
\* of its base table: the same time values in the same order, so the dataset
\* has exactly one row per grid point.
C1_RowsOfBaseKept ==
    /\ AfterPrimary => TimeColumn(data) = date_range(start_time, end_time)
    /\ (Joined /\ lj.err = "none") => TimeColumn(data) = TimeColumn(lj.base)

C3_ImputesExactlyWhenMissing ==
    Joined =>
        /\ lj.imputed <=> (MissingFromRaw # {})
        /\ lj.timeseries # <<>> =>
            /\ lj.err = "none"
            /\ \A i \in 1..Len(data) : data[i].cols[Len(data[i].cols)] # NaN

\* C8 (as stated): the grid is hourly and strictly increasing, starts at start
\* floored to the hour and its last element is >= end.
C8_GridFlooredAndCovering ==
    (di_pc = "grid" /\ start_time <= end_time) =>
        /\ data # <<>>
        /\ \A k \in 1..(Len(data) - 1) : data[k + 1].time = data[k].time + Hour
        /\ data[1].time = floor_H(start_time)
        /\ data[Len(data)].time >= end_time

\* C8 (amended): the grid is hourly and strictly increasing, starts at start
\* itself (not floored) and its last element is the last start + k hours that
\* is <= end, so less than one hour before end.
C8_GridFromStartWithinEnd ==
    (di_pc = "grid" /\ start_time <= end_time) =>
        /\ data # <<>>
        /\ \A k \in 1..(Len(data) - 1) : data[k + 1].time = data[k].time + Hour
        /\ data[1].time = start_time
        /\ data[Len(data)].time <= end_time
        /\ end_time < data[Len(data)].time + Hour

\* C8 witness: a grid of several hours from a start off the hour, ending before end.
C8_OffHourGrid ==
    /\ di_pc = "grid" /\ start_time <= end_time
    /\ start_time % Hour # 0
    /\ Len(data) >= 2
    /\ data[Len(data)].time < end_time

(***************************************************************************)
(* Properties of FrostImporter.data                                        *)
(***************************************************************************)
FrostDone == fr_pc = "done"
Failed == {i \in 1..Len(fr_requests) : ~fr_requests[i].ok}
SubIntervals == year(fr_end) - year(fr_start) + 1
RECURSIVE RowsOf(_)
RowsOf(reqs) ==
    IF reqs = <<>> THEN <<>>
    ELSE (IF Head(reqs).ok THEN response(Head(reqs).start, Head(reqs).end) ELSE <<>>)
         \o RowsOf(Tail(reqs))

\* C5 (as stated): a failed yearly sub-interval is skipped, the others are
\* still fetched and their rows returned in time order; the fetch fails as a
\* whole only if every sub-interval failed.
C5_FailedIntervalSkipped ==
    (FrostDone /\ fr_start <= fr_end) =>
        /\ Len(fr_requests) = SubIntervals
        /\ (Failed # 1..SubIntervals) =>
            /\ fr_result = "frame"
            /\ fr_timeseries = RowsOf(fr_requests)

\* C5 (amended): the first failed yearly sub-interval ends the fetch: no later
\* sub-interval is requested, the failure is logged and data returns None
\* (no error is raised); it returns a frame exactly when no sub-interval failed.
C5_FirstFailureReturnsNone ==
    /\ \A i \in Failed : i = Len(fr_requests) /\ FrostDone
    /\ (FrostDone /\ Failed # {}) =>
        /\ fr_result = "None"
        /\ fr_log[Len(fr_log)] = "HTTPError"
    /\ (FrostDone /\ Failed = {}) => fr_result = "frame"

\* C5 witness: a fetch over several years ended by the failure of a
\* sub-interval that is neither the only nor the last one.
C5_FailedBeforeLastYear ==
    /\ FrostDone /\ fr_start <= fr_end
    /\ Failed # {}
    /\ Len(fr_requests) >= 2
    /\ Len(fr_requests) < SubIntervals

\* C9: when every fetch succeeds there is exactly one request per calendar
\* year touched by [start, end], in time order; each lies within one year,
\* the first begins at start, the last ends at end, consecutive ones neither
\* overlap nor leave a minute out, and the result is the rows in that order.
C9_OneRequestPerYear ==
    (FrostDone /\ Failed = {} /\ fr_start <= fr_end) =>
        /\ Len(fr_requests) = SubIntervals
        /\ fr_requests[1].start = fr_start
        /\ fr_requests[Len(fr_requests)].end = fr_end
        /\ \A i \in 1..Len(fr_requests) :
            /\ fr_requests[i].start <= fr_requests[i].end
            /\ year(fr_requests[i].start) = year(fr_start) + i - 1
            /\ year(fr_requests[i].end) = year(fr_start) + i - 1
        /\ \A i \in 1..(Len(fr_requests) - 1) :
            fr_requests[i + 1].start = fr_requests[i].end + 1
        /\ fr_timeseries = response(fr_start, fr_end)
        /\ fr_result = "frame"

\* C9 witness: a successful fetch that touched three calendar years, starting
\* and ending inside a year.
C9_ThreeYearsFetched ==
    /\ FrostDone /\ Failed = {} /\ fr_result = "frame"
    /\ Len(fr_requests) = 3
    /\ fr_start # jan_1_0000(year(fr_start))
    /\ fr_end # dec_31_2359(year(fr_end))

(***************************************************************************)
(* Properties of FrostImporter.location_ids                                *)
(***************************************************************************)
Ranked == rk_pc = "done"
WithGeometry == {i \in 1..Len(rk_in.sources) : rk_in.sources[i].geometry # NoGeometry}
Available == {rk_in.availability[i][1] : i \in 1..Len(rk_in.availability)}
DistOf(id) ==
    haversine(rk_in.latlon_ref,
              <<rk_in.sources[id].geometry[2], rk_in.sources[id].geometry[1]>>)
\* a is ranked before b: closer, or equally far and earlier in the input
Before(a, b) == DistOf(a) < DistOf(b) \/ (DistOf(a) = DistOf(b) /\ a < b)
NClosestOf(candidates) ==
    /\ rk_err = "none"
    /\ Len(rk_ids) = rk_in.n
    /\ \A i \in 1..Len(rk_ids) : rk_ids[i] \in candidates
    /\ \A i, j \in 1..Len(rk_ids) : i < j => Before(rk_ids[i], rk_ids[j])
    /\ \A c \in candidates \ Range(rk_ids) : \A i \in 1..Len(rk_ids) : Before(rk_ids[i], c)

\* C7 (as stated): for n up to the number of stations with a geometry entry,
\* location_ids returns exactly n ids in ascending haversine distance, equal
\* distances in input order; stations without geometry are left out.
C7_NClosestWithGeometry ==
    (Ranked /\ rk_in.n <= Cardinality(WithGeometry)) => NClosestOf(WithGeometry)

\* C7 (amended): the same for n up to the number of stations that have a
\* geometry entry and are listed by the availability service: stations without
\* geometry or without an available time series are left out before ranking.
C7_NClosestAvailable ==
    (Ranked /\ rk_in.n <= Cardinality(WithGeometry \cap Available))
        => NClosestOf(WithGeometry \cap Available)

\* C7 witness: two of three candidates returned, the nearer first, the input
\* not in distance order, and a station without an available series dropped.
C7_RankedOutOfInputOrder ==
    /\ Ranked /\ rk_err = "none"
    /\ rk_in.n = 2 /\ Len(rk_ids) = 2
    /\ Cardinality(WithGeometry \cap Available) = 2
    /\ Cardinality(WithGeometry) = 3
    /\ rk_ids[1] > rk_ids[2]
    /\ DistOf(rk_ids[1]) < DistOf(rk_ids[2])

(***************************************************************************)
(* Properties of NorKystImporter.norkyst_data                              *)
(***************************************************************************)
Called == nk_call.called
Listed == Called /\ nk_call.err # "IndexError"
Returned == Called /\ nk_call.err = "none"
SeaCells == {k \in Cells : nk_env.h[k] # land_value(nk_env.h)}
ChosenCell == nk_call.y1 * GridCols + nk_call.x1 + 1
FirstFile == file_times(nk_call.reads[1].file)
LastFile == file_times(nk_call.reads[Len(nk_call.reads)].file)
FailedReads == {i \in 1..Len(nk_call.reads) : ~nk_call.oks[i]}
RECURSIVE RowsRead(_, _, _)
RowsRead(reads, oks, i) ==
    IF i > Len(reads) THEN <<>>
    ELSE (IF oks[i] THEN reads[i].rows ELSE <<>>) \o RowsRead(reads, oks, i + 1)

\* C4: whenever some cell is sea, the cell (y1, x1) selected for the site is
\* a sea cell, however far the site lies from the nearest sea cell.
C4_SelectedCellIsSea ==
    (Returned /\ SeaCells # {}) => ChosenCell \in SeaCells

\* C6: with two or more files in the list, the series starts at the last file time at or before start and ends
\* with the first file time at or after end; a bound outside the file's range
\* is clamped to the file's first or last sample.
C6_SeriesFromStartThroughEnd ==
    (Returned /\ FailedReads = {} /\ nk_start <= nk_end /\ Len(nk_filenames.list) >= 2) =>
        /\ nk_call.timeseries # <<>>
        /\ nk_call.timeseries[1] =
               IF nk_start < FirstFile[1] THEN FirstFile[1]
               ELSE Max0({t \in Range(FirstFile) : t <= nk_start})
        /\ nk_call.timeseries[Len(nk_call.timeseries)] =
               IF nk_end > LastFile[Samples] THEN LastFile[Samples]
               ELSE Min0({t \in Range(LastFile) : t >= nk_end})

\* C10 (as stated): one failed read, be it of the first, a middle or the last
\* file, is not fatal: the file is skipped and the series holds the rows of
\* the other files in file order.
C10_AnyFailedReadSkipped ==
    (Listed /\ Cardinality(FailedReads) = 1) =>
        /\ nk_call.err = "none"
        /\ nk_call.timeseries = RowsRead(nk_call.reads, nk_call.oks, 1)

\* C10 (amended): a failed read of a middle or of the last file is not fatal:
\* the file is skipped and the series holds the rows of the other reads in
\* file order; a failed read of the first file ends the call with an error and
\* no series.
C10_FailedLaterReadSkipped ==
    Listed =>
        /\ nk_call.oks[1] =>
            /\ nk_call.err = "none"
            /\ nk_call.timeseries = RowsRead(nk_call.reads, nk_call.oks, 1)
        /\ ~nk_call.oks[1] => nk_call.err # "none"

\* C10 witness: of three files the middle one failed and the series holds
\* the rows of the first and the last.
C10_MiddleFileSkipped ==
    /\ Returned
    /\ Len(nk_call.reads) = 3
    /\ FailedReads = {2}
    /\ nk_call.timeseries = nk_call.reads[1].rows \o nk_call.reads[3].rows
    /\ nk_call.reads[1].rows # <<>> /\ nk_call.reads[3].rows # <<>>

\* C11: every skipped unit of work leaves a record: each file of the list
\* whose read failed and was passed over is named by a line of the call's
\* output, and so is each leading file dropped from the list.
C11_SkipsLogged ==
    Returned =>
        /\ \A i \in FailedReads : nk_call.reads[i].file \in Range(nk_log)
        /\ \A d \in Range(nk_call.dates) \ Range(nk_filenames.list) : d \in Range(nk_log)

\* C18: every file is read once, so the series has strictly increasing
\* timestamps and no repeated row, also when one file holds start and end.
C18_EachFileReadOnce ==
    (Returned /\ FailedReads = {}) =>
        /\ \A i, j \in 1..Len(nk_call.reads) :
               nk_call.reads[i].file = nk_call.reads[j].file => i = j
        /\ \A i \in 1..(Len(nk_call.timeseries) - 1) :
               nk_call.timeseries[i] < nk_call.timeseries[i + 1]

\* C19: for start <= end the list built before the cleaning loop holds one
\* file for each calendar day from the day of start to the day of end, in order.
C19_OneFilePerDay ==
    (Called /\ nk_start <= nk_end) =>
        nk_call.dates = [i \in 1..(nk_end \div Day - nk_start \div Day + 1) |->
                            nk_start \div Day + i - 1]

\* C14: when every cell is land the call fails and selects no cell.
C14_AllLandFails ==
    (Called /\ SeaCells = {}) => nk_call.err # "none"

\* C16: a depth that is not a level of the depth axis (as a scalar or as an
\* element of a list) makes the call fail with no series; a depth on the axis
\* resolves to the index of that level.
OnAxis(d) == \E k \in 1..Len(all_depths) : 2 * all_depths[k] = d
C16_DepthOffAxisFails ==
    Called =>
        /\ (\E j \in 1..Len(nk_call.depth.d) : ~OnAxis(nk_call.depth.d[j]))
              => (nk_call.err # "none" /\ nk_call.timeseries = <<>>)
        /\ (\A j \in 1..Len(nk_call.depth.d) : OnAxis(nk_call.depth.d[j]))
              => /\ nk_call.err = "none"
                 /\ \A j \in 1..Len(nk_call.depth.d) :
                        2 * all_depths[nk_call.depth_index[j] + 1] = nk_call.depth.d[j]

\* C17: in every call the cell used is the sea cell nearest to the site passed
\* to that call, also in a later call on the same instance for another site.
SqDist(k, site) ==
    (cell_x(k) - site[1]) * (cell_x(k) - site[1])
        + (cell_y(k) - site[2]) * (cell_y(k) - site[2])
C17_CellNearestToCallSite ==
    Returned =>
        /\ ChosenCell \in SeaCells
        /\ \A k \in SeaCells : SqDist(ChosenCell, nk_call.site) <= SqDist(k, nk_call.site)

\* C17, first calls only: the cell of a first call is nearest to its site.
C17_FirstCallNearest ==
    nk_pc = "called" => C17_CellNearestToCallSite

(***************************************************************************)
(* Properties of the cleaning loop of norkyst_filenames                    *)
(***************************************************************************)
Openable == {i \in 1..Len(cl_in.dates) : cl_in.dates[i] \in cl_in.avail}
CleanedList ==
    /\ Openable # {}
    /\ cl_filenames = SubSeq(cl_in.dates, Min0(Openable), Len(cl_in.dates))
    /\ clean(cl_in.dates, cl_in.avail) = [err |-> "none", list |-> cl_filenames]
NothingOpens ==
    /\ Openable = {}
    /\ clean(cl_in.dates, cl_in.avail).err = "IndexError"

\* C20: the cleaning loop always ends: it returns the list from its first
\* file that opens on, in the order built, or raises when no file of the list
\* opens; it never runs forever.
C20_CleaningTerminates ==
    /\ [](cl_pc = "returned" => CleanedList)
    /\ [](cl_pc = "raised" => NothingOpens)
    /\ (cl_pc = "testing" ~> cl_pc \in {"returned", "raised"})

\* C20 witness: of three files the first did not open and was dropped, the
\* second opens, and the third, which does not, stays in the list behind it.
C20_LeadingFileDropped ==
    /\ cl_pc = "returned"
    /\ Len(cl_in.dates) = 3
    /\ Len(cl_filenames) = 2
    /\ cl_filenames[2] \notin cl_in.avail

(***************************************************************************)
(* Further properties of DataImporter                                      *)
(***************************************************************************)
\* C12: for an empty raw series left_join completes without raising and
\* returns the rows of the base table, each with an absent value in the new
\* column; no row is made up.
C12_EmptySeriesLeavesAbsent ==
    (Joined /\ lj.timeseries = <<>>) =>
        /\ lj.err = "none"
        /\ lj.fill = <<>>
        /\ data = [i \in 1..Len(lj.base) |->
                      [time |-> lj.base[i].time, cols |-> lj.base[i].cols \o <<NaN>>]]

\* C13: called with a grid and a series that has a row for every grid
\* timestamp, imput_missing_data does not raise and returns the series as it is.
C13_CompleteSeriesUnchanged ==
    (di_pc = "imputed" /\ IsGrid(lj.base) /\ Times(lj.base) \subseteq RefTimes(lj.timeseries)) =>
        /\ lj.err = "none"
        /\ lj.out = lj.ts

\* C15: with start > end no grid is built, not even an empty one: the run
\* stops with an error before the grid step is passed.
C15_ReversedRangeFails ==
    start_time > end_time => di_pc \in {"new", "ready", "failed"}

====
